---- MODULE Spec2Model ----
(***************************************************************************)
(* Model of server/app/models.py: User.get_stats_between (the window       *)
(* aggregator), User.get_stats_by_date (per-day stats with the             *)
(* user.statistics cache) and User.daywise_stats (stats over a date       *)
(* range).  Instants are whole seconds counted from 2025-12-30T00:00:00    *)
(* UTC; a timedelta is a number of seconds.                                *)
(***************************************************************************)
EXTENDS Integers, Sequences, FiniteSets, TLC

VARIABLES
    sessions,       \* devtime_coding_sessions rows of the user, by started_at
    allowed_break,  \* config DEVTIME_ACCEPTABLE_BREAK_DURATION, in seconds
    timezone,       \* User.timezone
    statistics,     \* User.statistics, the per-day cache
    pc,             \* position of the running get_stats_between call
    dt1,            \* get_stats_between: window start
    dt2,            \* get_stats_between: window end
    rows,           \* get_stats_between: the query result being iterated
    idx,            \* get_stats_between: number of rows already processed
    stats,          \* get_stats_between: the stats dict being filled
    last_on_left,   \* get_stats_between: right edge of the covered range
    ret             \* outcome of the last get_stats_by_date / daywise_stats call

vars == <<sessions, allowed_break, timezone, statistics, pc, dt1, dt2, rows,
          idx, stats, last_on_left, ret>>

scanVars == <<pc, dt1, dt2, rows, idx, stats, last_on_left>>

-----------------------------------------------------------------------------
(* Bounds of the model *)

MaxSessions == 2    \* rows in devtime_coding_sessions in the aggregator runs
MaxDays == 3        \* calendar days the date-level calls range over

-----------------------------------------------------------------------------
(* Python arithmetic used by the code *)

DaySeconds == 86400

Max(a, b) == IF a >= b THEN a ELSE b
Min(a, b) == IF a <= b THEN a ELSE b

\* timedelta.seconds: the seconds field of the normalised (days, seconds)
\* pair, always in 0 .. 86399; whole days are not part of it.
TdSeconds(td) == td % DaySeconds

\* round(n + s / 60) for an int n and a seconds count s: Python 3 rounds the
\* float to the nearest integer, a tie going to the even neighbour.
PyRoundMinutes(secs) ==
    LET q == secs \div 60
        r == secs % 60
    IN  IF r < 30 THEN q
        ELSE IF r > 30 THEN q + 1
        ELSE IF q % 2 = 0 THEN q ELSE q + 1

\* defaultdict(int): a missing key reads as 0
Get(d, k) == IF k \in DOMAIN d THEN d[k] ELSE 0
Add(d, k, n) == [x \in (DOMAIN d) \cup {k} |-> IF x = k THEN Get(d, k) + n ELSE d[x]]

EmptyDict == [x \in {} |-> 0]

-----------------------------------------------------------------------------
(* get_stats_between *)

get_default_stats_template ==
    [languages |-> EmptyDict, total |-> 0, editors |-> EmptyDict, idle_for |-> 0]

\* the filter of the sessions query
InWindow(s, a, b) == s.last_heartbeat_at > a /\ s.started_at < b

\* the query: the rows that pass the filter, in the table's started_at order
Query(tbl, a, b) == SelectSeq(tbl, LAMBDA s : InWindow(s, a, b))

LeftEnd(s, a) == Max(s.started_at, a)
RightEnd(s, b) == Min(s.last_heartbeat_at, b)

InitialLastOnLeft_wrongEdge(a, b) == b
InitialLastOnLeft(a, b) == a

IdleExceeds_inclusive(idle_time, brk) == idle_time >= brk
IdleExceeds(idle_time, brk) == idle_time > brk

IdleMinutes(idle_time) == PyRoundMinutes(TdSeconds(idle_time))

Duration(left_end, right_end) == PyRoundMinutes(TdSeconds(right_end - left_end + 30))

NewTotal(total, left_end, right_end, lol) ==
    PyRoundMinutes(60 * total
                   + TdSeconds(Max(right_end, lol) - Max(left_end, lol) + 30))

\* one iteration of the for loop: st = [stats, last_on_left]
LoopBody(st, s, a, b, brk) ==
    LET left_end == LeftEnd(s, a)
        right_end == RightEnd(s, b)
        idle_time == left_end - st.last_on_left
        idle_for == IF IdleExceeds(idle_time, brk)
                    THEN st.stats.idle_for + IdleMinutes(idle_time)
                    ELSE st.stats.idle_for
        duration == Duration(left_end, right_end)
    IN  [stats |->
            [languages |-> Add(st.stats.languages, s.language, duration),
             editors |-> Add(st.stats.editors, s.editor, duration),
             total |-> NewTotal(st.stats.total, left_end, right_end, st.last_on_left),
             idle_for |-> idle_for],
         last_on_left |-> Max(right_end, st.last_on_left)]

RECURSIVE ScanFrom(_, _, _, _, _)
ScanFrom(st, rs, a, b, brk) ==
    IF rs = <<>> THEN st
    ELSE ScanFrom(LoopBody(st, Head(rs), a, b, brk), Tail(rs), a, b, brk)

\* the whole call, as a function of the table
get_stats_between(tbl, a, b, brk) ==
    ScanFrom([stats |-> get_default_stats_template,
              last_on_left |-> InitialLastOnLeft(a, b)],
             Query(tbl, a, b), a, b, brk).stats

-----------------------------------------------------------------------------
(* The aggregator runs: one get_stats_between call over a fixed table *)

ScanInstants == {0, 89, 90, 600, 900, 1200, 1840, 86399}

Tags == {[language |-> "python", editor |-> "vim"],
         [language |-> "go", editor |-> "vscode"]}

SessionRows ==
    {[started_at |-> a, last_heartbeat_at |-> b,
      language |-> t.language, editor |-> t.editor] :
        a \in ScanInstants, b \in ScanInstants, t \in Tags}

\* CodingSession rows have started_at <= last_heartbeat_at, and the query
\* returns them ordered by started_at (ties in either order)
WellFormed(s) == s.started_at <= s.last_heartbeat_at

Ordered(tbl) ==
    \A i \in 1..(Len(tbl) - 1) : tbl[i].started_at <= tbl[i + 1].started_at

TablesOver(rowset, n) ==
    UNION {{tbl \in [1..k -> {s \in rowset : WellFormed(s)}] : Ordered(tbl)} : k \in 0..n}

\* the day window 00:00:00 .. 23:59:59 and a window that clips
ScanWindows == {<<0, 86399>>, <<90, 1840>>}

AllowedBreaks == {300, 600}

NoRet == [op |-> "none"]

ScanInit ==
    /\ sessions \in TablesOver(SessionRows, MaxSessions)
    /\ allowed_break \in AllowedBreaks
    /\ timezone = "UTC"
    /\ statistics = EmptyDict
    /\ pc = "idle"
    /\ dt1 = 0
    /\ dt2 = 0
    /\ rows = <<>>
    /\ idx = 0
    /\ stats = get_default_stats_template
    /\ last_on_left = 0
    /\ ret = NoRet

\* lines 56-69: the query, the template and the first covered edge
Call(w) ==
    /\ pc = "idle"
    /\ dt1' = w[1]
    /\ dt2' = w[2]
    /\ rows' = Query(sessions, w[1], w[2])
    /\ idx' = 0
    /\ stats' = get_default_stats_template
    /\ last_on_left' = InitialLastOnLeft(w[1], w[2])
    /\ pc' = "loop"
    /\ UNCHANGED <<sessions, allowed_break, timezone, statistics, ret>>

\* lines 70-94: the body of the for loop, for the next row
Iterate ==
    /\ pc = "loop"
    /\ idx < Len(rows)
    /\ LET st == LoopBody([stats |-> stats, last_on_left |-> last_on_left],
                          rows[idx + 1], dt1, dt2, allowed_break)
       IN  /\ stats' = st.stats
           /\ last_on_left' = st.last_on_left
    /\ idx' = idx + 1
    /\ UNCHANGED <<sessions, allowed_break, timezone, statistics, pc, dt1, dt2,
                   rows, ret>>

\* line 96: return stats
Return ==
    /\ pc = "loop"
    /\ idx = Len(rows)
    /\ pc' = "done"
    /\ UNCHANGED <<sessions, allowed_break, timezone, statistics, dt1, dt2,
                   rows, idx, stats, last_on_left, ret>>

ScanNext ==
    \/ \E w \in ScanWindows : Call(w)
    \/ Iterate
    \/ Return

ScanSpec == ScanInit /\ [][ScanNext]_vars

-----------------------------------------------------------------------------
(* Dates, time zones and strftime *)

\* datetime.date: a (year, month, day) triple
Date(y, m, d) == [year |-> y, month |-> m, day |-> d]

\* end=None of daywise_stats
NoDate == Date(0, 0, 0)

\* User.timezone is NULL
NullTz == "<NULL>"

IsLeap(y) == y % 4 = 0 /\ (y % 100 /= 0 \/ y % 400 = 0)

DaysInMonth(y, m) ==
    IF m = 2 THEN (IF IsLeap(y) THEN 29 ELSE 28)
    ELSE IF m \in {4, 6, 9, 11} THEN 30 ELSE 31

\* days of the year before the first of month m
DaysBeforeMonthTable == <<0, 31, 59, 90, 120, 151, 181, 212, 243, 273, 304, 334>>

DaysBeforeMonth(y, m) ==
    DaysBeforeMonthTable[m] + (IF m > 2 /\ IsLeap(y) THEN 1 ELSE 0)

DaysBeforeYear(y) ==
    (y - 1) * 365 + ((y - 1) \div 4) - ((y - 1) \div 100) + ((y - 1) \div 400)

\* date.toordinal()
ToOrdinal(dt) == DaysBeforeYear(dt.year) + DaysBeforeMonth(dt.year, dt.month) + dt.day

\* current_date + timedelta(days=1)
NextDay(dt) ==
    IF dt.day < DaysInMonth(dt.year, dt.month) THEN Date(dt.year, dt.month, dt.day + 1)
    ELSE IF dt.month < 12 THEN Date(dt.year, dt.month + 1, 1)
    ELSE Date(dt.year + 1, 1, 1)

\* start <= end on dates
DateLE(a, b) ==
    \/ a.year < b.year
    \/ a.year = b.year /\ a.month < b.month
    \/ a.year = b.year /\ a.month = b.month /\ a.day <= b.day

\* the instant 0 of the model
Epoch == Date(2025, 12, 30)
EpochOrdinal == ToOrdinal(Epoch)

\* datetime(y, m, d, hh, mm, ss, tzinfo=tz).astimezone(utc), tz at a fixed
\* offset east of UTC
UtcInstant(dt, hh, mm, ss, offset) ==
    (ToOrdinal(dt) - EpochOrdinal) * DaySeconds + hh * 3600 + mm * 60 + ss - offset

\* the zones of the tz database the model knows, with their UTC offsets
ZoneOffsets == [z \in {"UTC", "Asia/Kolkata"} |-> IF z = "UTC" THEN 0 ELSE 19800]

\* ZoneInfo(key) raises ZoneInfoNotFoundError for a key that is no zone
ZoneFound(key) == key \in DOMAIN ZoneOffsets

\* self.timezone or "UTC"
TimezoneOrUTC(tz) == IF tz = NullTz \/ tz = "" THEN "UTC" ELSE tz

Digits == <<"0", "1", "2", "3", "4", "5", "6", "7", "8", "9">>

RECURSIVE Decimal(_)
Decimal(n) == IF n < 10 THEN Digits[n + 1] ELSE Decimal(n \div 10) \o Digits[(n % 10) + 1]

Pad2(n) == IF n < 10 THEN "0" \o Decimal(n) ELSE Decimal(n)

\* strftime("%d-%m-%Y")
StrftimeDMY(dt) == Pad2(dt.day) \o "-" \o Pad2(dt.month) \o "-" \o Decimal(dt.year)

\* strftime("%d-%m-%YYYY"): %Y is the year, the three letters after it are
\* copied as they are
StrftimeDMYYYY(dt) == StrftimeDMY(dt) \o "YYY"

-----------------------------------------------------------------------------
(* get_stats_by_date and daywise_stats *)

InvalidRange == "AssertionError"

\* line 102: the key looked up in self.statistics
CacheKey(dt) == StrftimeDMYYYY(dt)

\* line 153: the key of daywise_stats' result
ResultKey(dt) == StrftimeDMY(dt)

\* the call's outcome: [outcome, value, cached]
get_stats_by_date(tbl, cache, tz, brk, dt, use_cache) ==
    IF use_cache /\ CacheKey(dt) \in DOMAIN cache
    THEN [outcome |-> "ok", value |-> cache[CacheKey(dt)], cached |-> TRUE]
    ELSE IF ~ZoneFound(TimezoneOrUTC(tz))
    THEN [outcome |-> "ZoneInfoNotFoundError",
          value |-> get_default_stats_template, cached |-> FALSE]
    ELSE LET off == ZoneOffsets[TimezoneOrUTC(tz)]
             start_time_utc == UtcInstant(dt, 0, 0, 0, off)
             end_time_utc == UtcInstant(dt, 23, 59, 59, off)
         IN  [outcome |-> "ok",
              value |-> get_stats_between(tbl, start_time_utc, end_time_utc, brk),
              cached |-> FALSE]

\* lines 142-144: the assert on the range
RangeAccepted_assertOff(start, end) == TRUE
RangeAccepted(start, end) == DateLE(start, end)

\* stats[key] = value on a dict
SetItem(d, k, v) == [x \in (DOMAIN d) \cup {k} |-> IF x = k THEN v ELSE d[x]]

\* lines 150-156: the while loop from current_date on, stats being the dict
\* built so far and calls the dates get_stats_by_date was called for; an
\* exception of get_stats_by_date ends the call
RECURSIVE DaywiseLoop(_, _, _, _, _, _, _, _)
DaywiseLoop(tbl, cache, tz, brk, current_date, end, st, calls) ==
    IF ~DateLE(current_date, end)
    THEN [outcome |-> "ok", value |-> st, calls |-> calls]
    ELSE LET day_after_current == NextDay(current_date)
             r == get_stats_by_date(tbl, cache, tz, brk, current_date, TRUE)
         IN  IF r.outcome /= "ok"
             THEN [outcome |-> r.outcome, value |-> EmptyDict,
                   calls |-> Append(calls, current_date)]
             ELSE DaywiseLoop(tbl, cache, tz, brk, day_after_current, end,
                              SetItem(st, ResultKey(current_date), r.value),
                              Append(calls, current_date))

daywise_stats(tbl, cache, tz, brk, start, end_arg) ==
    LET end == IF end_arg = NoDate THEN start ELSE end_arg
    IN  IF ~RangeAccepted(start, end)
        THEN [outcome |-> InvalidRange, value |-> EmptyDict, calls |-> <<>>]
        ELSE DaywiseLoop(tbl, cache, tz, brk, start, end, EmptyDict, <<>>)

-----------------------------------------------------------------------------
(* The date-level runs: calls of get_stats_by_date and daywise_stats while  *)
(* heartbeats extend the sessions and the cache store is written            *)

RECURSIVE DateAt(_)
DateAt(n) == IF n = 0 THEN Epoch ELSE NextDay(DateAt(n - 1))

Dates == {DateAt(n) : n \in 0..(MaxDays - 1)}

DayOffsets == {600, 70000}

DayRows ==
    {[started_at |-> n * DaySeconds + a, last_heartbeat_at |-> n * DaySeconds + b,
      language |-> "python", editor |-> "vim"] :
        n \in 0..(MaxDays - 1), a \in DayOffsets, b \in DayOffsets}

\* the table of the date-level runs: no session, or one
DayTables == {<<>>} \cup {<<r>> : r \in {s \in DayRows : WellFormed(s)}}

\* the acceptable break of the date-level runs: five minutes
DayBreaks == {300}

TimezoneValues == {NullTz, "UTC", "Asia/Kolkata", "Mars/Phobos"}

Init ==
    /\ sessions \in DayTables
    /\ allowed_break \in DayBreaks
    /\ timezone \in TimezoneValues
    /\ statistics = EmptyDict
    /\ pc = "idle"
    /\ dt1 = 0
    /\ dt2 = 0
    /\ rows = <<>>
    /\ idx = 0
    /\ stats = get_default_stats_template
    /\ last_on_left = 0
    /\ ret = NoRet

\* an editor heartbeat extends the latest session
Heartbeat(t) ==
    /\ sessions /= <<>>
    /\ t > sessions[Len(sessions)].last_heartbeat_at
    /\ t < (sessions[Len(sessions)].started_at \div DaySeconds + 1) * DaySeconds
    /\ sessions' = [sessions EXCEPT ![Len(sessions)].last_heartbeat_at = t]
    /\ UNCHANGED <<allowed_break, timezone, statistics, ret, scanVars>>

\* the cache store's Put: a day's summary is stored under its DD-MM-YYYY
\* string, once
CachePut(dt) ==
    /\ ResultKey(dt) \notin DOMAIN statistics
    /\ ZoneFound(TimezoneOrUTC(timezone))
    /\ LET off == ZoneOffsets[TimezoneOrUTC(timezone)]
           v == get_stats_between(sessions, UtcInstant(dt, 0, 0, 0, off),
                                  UtcInstant(dt, 23, 59, 59, off), allowed_break)
       IN  statistics' = SetItem(statistics, ResultKey(dt), v)
    /\ UNCHANGED <<sessions, allowed_break, timezone, ret, scanVars>>

GetStatsByDate(dt, use_cache) ==
    /\ LET r == get_stats_by_date(sessions, statistics, timezone, allowed_break,
                                  dt, use_cache)
       IN  ret' = [op |-> "get_stats_by_date", date |-> dt, use_cache |-> use_cache,
                   outcome |-> r.outcome, value |-> r.value, cached |-> r.cached]
    /\ UNCHANGED <<sessions, allowed_break, timezone, statistics, scanVars>>

DaywiseStats(start, end) ==
    /\ LET r == daywise_stats(sessions, statistics, timezone, allowed_break,
                              start, end)
       IN  ret' = [op |-> "daywise_stats", start |-> start, end |-> end,
                   outcome |-> r.outcome, value |-> r.value, calls |-> r.calls]
    /\ UNCHANGED <<sessions, allowed_break, timezone, statistics, scanVars>>

Next ==
    \/ \E n \in 0..(MaxDays - 1), o \in DayOffsets : Heartbeat(n * DaySeconds + o)
    \/ \E dt \in Dates : CachePut(dt)
    \/ \E dt \in Dates, use_cache \in BOOLEAN : GetStatsByDate(dt, use_cache)
    \/ \E start \in Dates, end \in Dates \cup {NoDate} : DaywiseStats(start, end)

Spec == Init /\ [][Next]_vars

-----------------------------------------------------------------------------
(* Properties of the aggregator *)

\* the row the next Iterate step processes, and its clipped interval
CurRow == rows[idx + 1]
CurLeft == LeftEnd(CurRow, dt1)
CurRight == RightEnd(CurRow, dt2)
CurLength == CurRight - CurLeft
CurGap == CurLeft - last_on_left

\* m is t seconds rounded to a nearest whole minute
NearestMinute(m, t) == 60 * m - 30 <= t /\ t <= 60 * m + 30

\* the state before the k-th row of the current call was processed
Before(k) ==
    ScanFrom([stats |-> get_default_stats_template,
              last_on_left |-> InitialLastOnLeft(dt1, dt2)],
             SubSeq(rows, 1, k - 1), dt1, dt2, allowed_break)

GapOf(k) == LeftEnd(rows[k], dt1) - Before(k).last_on_left

\* C1: a session whose clipped interval lies inside the range already covered
\* (right <= last_on_left) leaves total unchanged, while its language and
\* editor buckets grow by its own clipped duration.
C1_ContainedLeavesTotal ==
    [][(Iterate /\ CurRight <= last_on_left) =>
        /\ stats'.total = stats.total
        /\ Get(stats'.languages, CurRow.language)
             = Get(stats.languages, CurRow.language) + Duration(CurLeft, CurRight)
        /\ Get(stats'.editors, CurRow.editor)
             = Get(stats.editors, CurRow.editor) + Duration(CurLeft, CurRight)]_vars

\* C2: a session of clipped length L seconds (L + 30 below one day) adds
\* floor((L + 30) / 60) minutes to its language bucket and to its editor
\* bucket: 90 seconds add 2 minutes, 89 seconds add 1 minute.
C2_HalfMinuteUp ==
    [][(Iterate /\ CurLength + 30 < DaySeconds) =>
        /\ Get(stats'.languages, CurRow.language)
             = Get(stats.languages, CurRow.language) + ((CurLength + 30) \div 60)
        /\ Get(stats'.editors, CurRow.editor)
             = Get(stats.editors, CurRow.editor) + ((CurLength + 30) \div 60)]_vars

\* C3 as stated: the gap between the window start and the clipped start of
\* the first session is never added to idle_for.
C3_LeadingGapNeverIdle ==
    [][(Iterate /\ idx = 0) => stats'.idle_for = stats.idle_for]_vars

\* idle minutes the scan owes for the rows k..Len(rs), lol being the covered
\* right edge before row k: every gap above the break, the first row's gap
\* from the window start included, and nothing after the last row
RECURSIVE IdleOwed(_, _)
IdleOwed(rs, lol) ==
    IF rs = <<>> THEN {0}
    ELSE LET gap == LeftEnd(Head(rs), dt1) - lol
             rest == IdleOwed(Tail(rs), Max(RightEnd(Head(rs), dt2), lol))
         IN  IF gap > allowed_break
             THEN {m + r : m \in {n \in 0..(DaySeconds \div 60) : NearestMinute(n, gap)},
                           r \in rest}
             ELSE rest

\* C3 amended: when the call returns, idle_for is the sum of the gaps above
\* the acceptable break that precede each session of the window, the gap
\* between the window start and the first session's clipped start included;
\* the gap between the last session and the window end adds nothing.
C3_IdleIsGapsBeforeSessions ==
    pc = "done" => stats.idle_for \in IdleOwed(rows, dt1)

\* a call returned with one session, a leading gap above the break that was
\* counted, and a trailing gap above the break that was not
C3_Witness ==
    /\ pc = "done"
    /\ Len(rows) = 1
    /\ LeftEnd(rows[1], dt1) - dt1 > allowed_break
    /\ dt2 - RightEnd(rows[1], dt2) > allowed_break
    /\ stats.idle_for > 0
    /\ NearestMinute(stats.idle_for, LeftEnd(rows[1], dt1) - dt1)

C10_WithinOneMinute ==
    [][(Iterate /\ CurLength < DaySeconds) =>
        LET dl == Get(stats'.languages, CurRow.language)
                    - Get(stats.languages, CurRow.language)
            de == Get(stats'.editors, CurRow.editor)
                    - Get(stats.editors, CurRow.editor)
            within(m) == 60 * m - 60 <= CurLength /\ CurLength <= 60 * m + 60
        IN  /\ within(dl)
            /\ within(de)
            /\ idx = 0 => within(stats'.total)]_vars

-----------------------------------------------------------------------------
(* Properties of get_stats_by_date and daywise_stats *)

\* the UTC day window of a date
UtcDayStats(dt) ==
    get_stats_between(sessions, UtcInstant(dt, 0, 0, 0, 0),
                      UtcInstant(dt, 23, 59, 59, 0), allowed_break)

\* the dates from start to end inclusive
DatesBetween(start, end) == {d \in Dates : DateLE(start, d) /\ DateLE(d, end)}

\* C4: after get_stats_by_date(d, use_cache=True) returns on a cache miss,
\* user.statistics holds an entry for d equal to the returned summary, and the
\* next call with use_cache=True returns the identical summary, whatever
\* heartbeats came in between.
C4_MissFillsCache ==
    [][\A dt \in Dates :
        (GetStatsByDate(dt, TRUE) /\ ret'.outcome = "ok") =>
            /\ CacheKey(dt) \notin DOMAIN statistics =>
                 \E k \in {CacheKey(dt), ResultKey(dt)} :
                    k \in DOMAIN statistics' /\ statistics'[k] = ret'.value
            /\ (ret.op = "get_stats_by_date" /\ ret.date = dt /\ ret.use_cache
                  /\ ret.outcome = "ok") => ret'.value = ret.value]_vars

\* C5: when user.statistics holds an entry under the DD-MM-YYYY string of d,
\* get_stats_by_date(d, use_cache=True) returns that entry and does not
\* recompute from the sessions.
C5_CachedEntryReturned ==
    [][\A dt \in Dates :
        (GetStatsByDate(dt, TRUE) /\ ResultKey(dt) \in DOMAIN statistics) =>
            /\ ret'.outcome = "ok"
            /\ ret'.cached
            /\ ret'.value = statistics[ResultKey(dt)]]_vars

\* C6: for start <= end, daywise_stats returns a mapping whose keys are
\* exactly the DD-MM-YYYY strings of the days from start to end inclusive,
\* each value being get_stats_by_date of that day; with end omitted the
\* mapping is {start: get_stats_by_date(start)}.
C6_RangeCoversEveryDay ==
    [][\A start \in Dates, end \in Dates \cup {NoDate} :
        LET e == IF end = NoDate THEN start ELSE end
        IN  (DaywiseStats(start, end) /\ DateLE(start, e)) =>
                /\ ret'.outcome = "ok"
                /\ DOMAIN ret'.value = {ResultKey(d) : d \in DatesBetween(start, e)}
                /\ Cardinality(DOMAIN ret'.value)
                     = ToOrdinal(e) - ToOrdinal(start) + 1
                /\ \A d \in DatesBetween(start, e) :
                     ret'.value[ResultKey(d)]
                       = get_stats_by_date(sessions, statistics, timezone,
                                           allowed_break, d, TRUE).value]_vars

\* C7: daywise_stats with start > end fails with the InvalidRange outcome
\* before any per-day stats are computed: get_stats_by_date is not called,
\* no mapping is returned, and user.statistics is unchanged.
C7_InvalidRangeFailsFirst ==
    [][(ret' /= ret /\ ret'.op = "daywise_stats" /\ ret'.end /= NoDate
          /\ ~DateLE(ret'.start, ret'.end)) =>
            /\ ret'.outcome = InvalidRange
            /\ ret'.calls = <<>>
            /\ ret'.value = EmptyDict
            /\ statistics' = statistics]_vars

\* a start > end call failed with InvalidRange while the cache held entries
C7_Witness ==
    /\ ret.op = "daywise_stats"
    /\ ret.end /= NoDate
    /\ ~DateLE(ret.start, ret.end)
    /\ ret.outcome = InvalidRange
    /\ ret.calls = <<>>
    /\ statistics /= EmptyDict

\* C8: get_stats_by_date never fails because of user.timezone: with the
\* timezone unset, or set to an identifier that is no zone, the day window
\* is midnight to 23:59:59 UTC and a summary is returned.
C8_TimezoneFallsBackToUTC ==
    [][\A dt \in Dates, use_cache \in BOOLEAN :
        (GetStatsByDate(dt, use_cache) /\ timezone \notin DOMAIN ZoneOffsets
           /\ ~(use_cache /\ CacheKey(dt) \in DOMAIN statistics)) =>
            /\ ret'.outcome = "ok"
            /\ ret'.value = UtcDayStats(dt)]_vars

====
